---- MODULE Spec2Model ----
(***************************************************************************)
(* The tracker's announce endpoint (tracker/service/tracker.go,            *)
(* GetAnnounceHandler): parsing of the query values, construction of the   *)
(* storage.PeerInfo record and the Update / Read / AssignPeerPriority /    *)
(* SamplePeers / bencode.Marshal pipeline, with the http.ResponseWriter    *)
(* the handler answers on.                                                 *)
(*                                                                         *)
(* Texts are sequences of one-character strings.  64-bit quantities do not *)
(* fit TLC's integers, so a magnitude is a little-endian sequence of       *)
(* base-256 limbs and a signed integer is a record [neg, mag].             *)
(***************************************************************************)
EXTENDS Integers, Sequences, FiniteSets, TLC

\* ------------------------------------------------------------------------
\* Limb arithmetic (the machine integers of the Go code)
\* ------------------------------------------------------------------------

LimbZero(n) == [i \in 1..n |-> 0]

IsZero(x) == \A i \in 1..Len(x) : x[i] = 0

\* x * m + c, one limb longer than x: the last limb is the carry out.
RECURSIVE MulAddLimbs(_, _, _)
MulAddLimbs(x, m, c) ==
    IF x = <<>> THEN <<c>>
    ELSE LET t == Head(x) * m + c
         IN  <<t % 256>> \o MulAddLimbs(Tail(x), m, t \div 256)

\* x + y + c for equally long x and y, one limb longer (the carry out).
RECURSIVE AddLimbs(_, _, _)
AddLimbs(x, y, c) ==
    IF x = <<>> THEN <<c>>
    ELSE LET t == Head(x) + Head(y) + c
         IN  <<t % 256>> \o AddLimbs(Tail(x), Tail(y), t \div 256)

\* The two's-complement negation of a bit pattern: ^x + 1, truncated.
NegatePattern(x) ==
    SubSeq(MulAddLimbs([i \in 1..Len(x) |-> 255 - x[i]], 1, 1), 1, Len(x))

\* A signed integer's two's-complement bit pattern in n limbs (truncating).
Pattern(v, n) ==
    LET m == [i \in 1..n |-> IF i <= Len(v.mag) THEN v.mag[i] ELSE 0]
    IN  IF v.neg THEN NegatePattern(m) ELSE m

\* The signed integer a two's-complement bit pattern stands for.
SignedOf(p) ==
    IF p[Len(p)] >= 128
    THEN [neg |-> TRUE, mag |-> NegatePattern(p)]
    ELSE [neg |-> FALSE, mag |-> p]

\* ------------------------------------------------------------------------
\* strconv.ParseUint / strconv.ParseInt, base 10
\* ------------------------------------------------------------------------

Digits == <<"0", "1", "2", "3", "4", "5", "6", "7", "8", "9">>

IsDigit(c) == \E i \in 1..10 : Digits[i] = c

DigitVal(c) == (CHOOSE i \in 1..10 : Digits[i] = c) - 1

\* The value exceeds 1<<bitSize - 1: a limb above the width is set.
ExceedsWidth(x, bitSize) == \E i \in 1..Len(x) : i > (bitSize \div 8) /\ x[i] # 0

\* The digit loop of ParseUint: n is the value so far (8 limbs).
RECURSIVE ParseDigits(_, _, _)
ParseDigits(s, n, bitSize) ==
    IF s = <<>> THEN [err |-> "none", val |-> n]
    ELSE IF ~IsDigit(Head(s)) THEN [err |-> "syntax", val |-> LimbZero(8)]
    ELSE LET n1 == MulAddLimbs(n, 10, DigitVal(Head(s)))
         IN  IF ExceedsWidth(n1, bitSize)
             THEN [err |-> "range", val |-> LimbZero(8)]
             ELSE ParseDigits(Tail(s), SubSeq(n1, 1, 8), bitSize)

ParseUint(s, bitSize) ==
    IF s = <<>> THEN [err |-> "syntax", val |-> LimbZero(8)]
    ELSE ParseDigits(s, LimbZero(8), bitSize)

\* un >= 1 << (bitSize-1)
AtLeastCutoff(un, bitSize) == un[bitSize \div 8] >= 128

\* un > 1 << (bitSize-1)
AboveCutoff(un, bitSize) ==
    \/ un[bitSize \div 8] > 128
    \/ /\ un[bitSize \div 8] = 128
       /\ \E i \in 1..((bitSize \div 8) - 1) : un[i] # 0

ParseInt(s, bitSize) ==
    IF s = <<>> THEN [err |-> "syntax", val |-> [neg |-> FALSE, mag |-> LimbZero(8)]]
    ELSE LET neg  == Head(s) = "-"
             rest == IF Head(s) \in {"+", "-"} THEN Tail(s) ELSE s
             un   == ParseUint(rest, bitSize)
             zero == [neg |-> FALSE, mag |-> LimbZero(8)]
         IN  IF un.err # "none" THEN [err |-> un.err, val |-> zero]
             ELSE IF ~neg /\ AtLeastCutoff(un.val, bitSize)
                  THEN [err |-> "range", val |-> zero]
             ELSE IF neg /\ AboveCutoff(un.val, bitSize)
                  THEN [err |-> "range", val |-> zero]
             ELSE [err |-> "none",
                   val |-> [neg |-> neg /\ ~IsZero(un.val), mag |-> un.val]]

\* ------------------------------------------------------------------------
\* Conversions of the handler
\* ------------------------------------------------------------------------

\* int32(x) of an int64: the low 32 bits, read as a signed integer.
Int32Of(v) == SignedOf(Pattern(v, 4))

\* A narrowing that saturates at the largest int64 instead of wrapping.
Int64Saturating(u) ==
    IF u[8] >= 128
    THEN [neg |-> FALSE, mag |-> <<255, 255, 255, 255, 255, 255, 255, 127>>]
    ELSE [neg |-> FALSE, mag |-> u]

\* int64(x) of a uint64: the same 64 bits, read as a signed integer.
Int64OfUint64(u) == SignedOf(u)

\* strconv.Itoa of an octet.
Itoa(n) ==
    IF n >= 100
    THEN <<Digits[(n \div 100) + 1], Digits[((n \div 10) % 10) + 1], Digits[(n % 10) + 1]>>
    ELSE IF n >= 10 THEN <<Digits[(n \div 10) + 1], Digits[(n % 10) + 1]>>
    ELSE <<Digits[n + 1]>>

\* net.IP.String() of a 4-byte address.
IPString(b) ==
    Itoa(b[1]) \o <<".">> \o Itoa(b[2]) \o <<".">> \o Itoa(b[3]) \o <<".">> \o Itoa(b[4])

\* utils.Int32toIP: the four octets of uint32(i32), most significant first.
Int32toIP(v) ==
    LET p == Pattern(v, 4) IN <<p[4], p[3], p[2], p[1]>>

HexDigits == <<"0", "1", "2", "3", "4", "5", "6", "7", "8", "9", "a", "b", "c", "d", "e", "f">>

\* hex.EncodeToString: two lower-case hexadecimal digits per byte.
RECURSIVE HexEncode(_)
HexEncode(b) ==
    IF b = <<>> THEN <<>>
    ELSE <<HexDigits[(Head(b) \div 16) + 1], HexDigits[(Head(b) % 16) + 1]>> \o HexEncode(Tail(b))

\* ------------------------------------------------------------------------
\* Announce requests: the query values of r.URL.Query()
\* ------------------------------------------------------------------------

\* Handler invocations that may be in flight at once.
NumHandlers == 2

Handlers == 1..NumHandlers

PortTexts == { <<"6","8","8","1">>, <<"-","1">>, <<"a","b","c">> }

IPTexts ==
    { <<"2","1","3","0","7","0","6","4","3","3">>,          \* 127.0.0.1
      <<"-","1","0","6","2","7","3","1","7","7","5">>,      \* 192.168.0.1, signed
      <<"3","2","3","2","2","3","5","5","2","1">>,          \* 192.168.0.1, unsigned
      <<"2","1","4","7","4","8","3","6","4","8">>,          \* 2^31
      <<"-","2","1","4","7","4","8","3","6","4","9">>,      \* -2^31 - 1
      <<"1","2","7",".","0",".","0",".","1">> }

DownloadedTexts == { <<"0">>, <<"1","x">> }

UploadedTexts == { <<"0">>, <<>> }

LeftTexts ==
    { <<"1","0","0","0">>,
      <<"9","2","2","3","3","7","2","0","3","6","8","5","4","7","7","5","8","0","7">>,      \* 2^63-1
      <<"9","2","2","3","3","7","2","0","3","6","8","5","4","7","7","5","8","0","8">>,      \* 2^63
      <<"1","8","4","4","6","7","4","4","0","7","3","7","0","9","5","5","1","6","1","5">>,  \* 2^64-1
      <<"1","8","4","4","6","7","4","4","0","7","3","7","0","9","5","5","1","6","1","6">>,  \* 2^64
      <<"-","1">>,
      <<"1","e","3">> }

InfoHashes == { <<65, 66>>, <<>>, <<0, 255>> }

PeerIDs == { <<67, 68>>, <<>> }

DCs == { "dc1", "" }

Events == { "started", "", "bogus" }

BaseQuery ==
    [ info_hash  |-> <<65, 66>>,
      peer_id    |-> <<67, 68>>,
      port       |-> <<"6","8","8","1">>,
      ip         |-> <<"2","1","3","0","7","0","6","4","3","3">>,
      dc         |-> "dc1",
      downloaded |-> <<"0">>,
      uploaded   |-> <<"0">>,
      left       |-> <<"1","0","0","0">>,
      event      |-> "started" ]

\* The announces the model serves: BaseQuery (the scenario of the
\* specification's section 8), and BaseQuery with one query value replaced.
Queries ==
    {[BaseQuery EXCEPT !.info_hash = v] : v \in InfoHashes}
    \cup {[BaseQuery EXCEPT !.peer_id = v] : v \in PeerIDs}
    \cup {[BaseQuery EXCEPT !.port = v] : v \in PortTexts}
    \cup {[BaseQuery EXCEPT !.ip = v] : v \in IPTexts}
    \cup {[BaseQuery EXCEPT !.dc = v] : v \in DCs}
    \cup {[BaseQuery EXCEPT !.downloaded = v] : v \in DownloadedTexts}
    \cup {[BaseQuery EXCEPT !.uploaded = v] : v \in UploadedTexts}
    \cup {[BaseQuery EXCEPT !.left = v] : v \in LeftTexts}
    \cup {[BaseQuery EXCEPT !.event = v] : v \in Events}

\* ------------------------------------------------------------------------
\* State
\* ------------------------------------------------------------------------

VARIABLES
    store,       \* the datastore's peer records (storage.Storage behind Update/Read)
    lastUpdate,  \* history: per (InfoHash, PeerID), the record of the last successful Update
    pc,          \* per handler invocation: the statement it is at
    query,       \* per invocation: queryValues
    peer,        \* per invocation: the storage.PeerInfo built at lines 138-149
    peerInfos,   \* per invocation: the peerInfos local
    w,           \* per invocation: the http.ResponseWriter
    calls,       \* per invocation: the collaborator calls made so far, in order
    ret,         \* per invocation: the return statement taken
    torrents,    \* the datastore's torrents, name -> info hash (ReadTorrent/CreateTorrent)
    manifests,   \* the datastore's manifests, tag -> blob (UpdateManifest)
    served       \* the info-hash or manifest request served last: input, calls, response

announceVars == <<store, lastUpdate, pc, query, peer, peerInfos, w, calls, ret>>

metaVars == <<torrents, manifests, served>>

vars == <<store, lastUpdate, pc, query, peer, peerInfos, w, calls, ret,
          torrents, manifests, served>>

\* Announcer.AnnounceInterval of the application's configuration.
AnnounceInterval == 3

StatusOK == 200

StatusInternalServerError == 500

StatusBadRequest == 400

StatusNotFound == 404

\* No info-hash or manifest request has been served yet.
NoRequest == [handler |-> "", calls |-> <<>>, w |-> [status |-> 0, contentType |-> "", body |-> <<>>]]

NoQuery == [f \in {} |-> <<>>]

NoPeer == [f \in {} |-> <<>>]

FreshWriter == [status |-> 0, contentType |-> "", body |-> <<>>]

Key(p) == <<p.InfoHash, p.PeerID>>

\* ------------------------------------------------------------------------
\* http.ResponseWriter
\* ------------------------------------------------------------------------

\* Header().Set("Content-Type", v): the header map is sent with the status line.
SetContentType(rw, v) ==
    IF rw.status = 0 THEN [rw EXCEPT !.contentType = v] ELSE rw

\* WriteHeader(code): the first call commits the status, later ones are ignored.
WriteHeader(rw, code) ==
    IF rw.status = 0 THEN [rw EXCEPT !.status = code] ELSE rw

\* Write(data): commits 200 when no status is committed yet, then appends.
Write(rw, data) ==
    LET c == WriteHeader(rw, StatusOK) IN [c EXCEPT !.body = Append(@, data)]

\* http.Error(w, msg, code)
HttpError(rw, msg, code) ==
    Write(WriteHeader(SetContentType(rw, "text/plain; charset=utf-8"), code),
          [kind |-> "error", text |-> msg])

\* ------------------------------------------------------------------------
\* GetAnnounceHandler
\* ------------------------------------------------------------------------

\* A validation that forgets to check the error of the `left` parse.
FirstParseErrorSkipsLeft(qv) ==
    IF ParseInt(qv.port, 64).err # "none" THEN "port"
    ELSE IF ParseInt(qv.ip, 32).err # "none" THEN "ip"
    ELSE IF ParseInt(qv.downloaded, 64).err # "none" THEN "downloaded"
    ELSE IF ParseInt(qv.uploaded, 64).err # "none" THEN "uploaded"
    ELSE ""

\* An announce without info_hash or without peer_id is turned away first.
FirstParseErrorNeedsIdentity(qv) ==
    IF qv.info_hash = <<>> \/ qv.peer_id = <<>> THEN "identity"
    ELSE IF ParseInt(qv.port, 64).err # "none" THEN "port"
    ELSE IF ParseInt(qv.ip, 32).err # "none" THEN "ip"
    ELSE IF ParseInt(qv.downloaded, 64).err # "none" THEN "downloaded"
    ELSE IF ParseInt(qv.uploaded, 64).err # "none" THEN "uploaded"
    ELSE IF ParseUint(qv.left, 64).err # "none" THEN "left"
    ELSE ""

\* The ip parsed as a 64-bit integer.
FirstParseErrorWideIP(qv) ==
    IF ParseInt(qv.port, 64).err # "none" THEN "port"
    ELSE IF ParseInt(qv.ip, 64).err # "none" THEN "ip"
    ELSE IF ParseInt(qv.downloaded, 64).err # "none" THEN "downloaded"
    ELSE IF ParseInt(qv.uploaded, 64).err # "none" THEN "uploaded"
    ELSE IF ParseUint(qv.left, 64).err # "none" THEN "left"
    ELSE ""

\* Lines 101-134: the first of the five numeric query values that does not
\* parse, in the order the handler parses them ("" when all parse).
FirstParseError(qv) ==
    IF ParseInt(qv.port, 64).err # "none" THEN "port"
    ELSE IF ParseInt(qv.ip, 32).err # "none" THEN "ip"
    ELSE IF ParseInt(qv.downloaded, 64).err # "none" THEN "downloaded"
    ELSE IF ParseInt(qv.uploaded, 64).err # "none" THEN "uploaded"
    ELSE IF ParseUint(qv.left, 64).err # "none" THEN "left"
    ELSE ""

\* The status the handler answers a parse failure with.
ParseErrorStatus == StatusInternalServerError

\* The address taken from the parsed port instead of the parsed ip.
PeerIPOfPort(qv) == IPString(Int32toIP(Int32Of(ParseInt(qv.port, 64).val)))

\* Line 136: peerIP := utils.Int32toIP(int32(peerIPInt32)).String()
PeerIP(qv) == IPString(Int32toIP(Int32Of(ParseInt(qv.ip, 32).val)))

\* Lines 138-149: the record handed to datastore.Update.
BuildPeer(qv) ==
    [ InfoHash        |-> HexEncode(qv.info_hash),
      PeerID          |-> HexEncode(qv.peer_id),
      IP              |-> PeerIP(qv),
      Port            |-> ParseInt(qv.port, 64).val,
      DC              |-> qv.dc,
      BytesUploaded   |-> ParseInt(qv.uploaded, 64).val,
      BytesDownloaded |-> ParseInt(qv.downloaded, 64).val,
      BytesLeft       |-> Int64OfUint64(ParseUint(qv.left, 64).val),
      Event           |-> qv.event,
      Priority        |-> 0 ]

Init ==
    /\ store = {}
    /\ lastUpdate = [k \in {} |-> NoPeer]
    /\ pc = [h \in Handlers |-> "idle"]
    /\ query = [h \in Handlers |-> NoQuery]
    /\ peer = [h \in Handlers |-> NoPeer]
    /\ peerInfos = [h \in Handlers |-> <<>>]
    /\ w = [h \in Handlers |-> FreshWriter]
    /\ calls = [h \in Handlers |-> <<>>]
    /\ ret = [h \in Handlers |-> ""]
    /\ torrents = [n \in {} |-> <<>>]
    /\ manifests = [n \in {} |-> <<>>]
    /\ served = NoRequest

\* The handler returns through the return statement named by `by`.
Returns(h, by) ==
    /\ pc' = [pc EXCEPT ![h] = "returned"]
    /\ ret' = [ret EXCEPT ![h] = by]

\* Lines 86-149: the request arrives, its query values are parsed and the
\* peer record is built; a parse failure answers and returns.
ReceiveAnnounce(h, qv) ==
    /\ pc[h] = "idle"
    /\ query' = [query EXCEPT ![h] = qv]
    /\ IF FirstParseError(qv) # ""
       THEN /\ w' = [w EXCEPT ![h] = HttpError(@, FirstParseError(qv), ParseErrorStatus)]
            /\ Returns(h, FirstParseError(qv))
            /\ UNCHANGED peer
       ELSE /\ peer' = [peer EXCEPT ![h] = BuildPeer(qv)]
            /\ pc' = [pc EXCEPT ![h] = "update"]
            /\ UNCHANGED <<w, ret>>
    /\ UNCHANGED <<store, lastUpdate, peerInfos, calls>>
    /\ UNCHANGED metaVars

\* ---- the collaborators, at their interface -------------------------------

\* storage.Storage.Update: an upsert keyed by (InfoHash, PeerID).
StorageUpdate(s, p) == {o \in s : Key(o) # Key(p)} \cup {p}

\* All orderings of a finite set, as sequences.
Orderings(S) ==
    {f \in [1..Cardinality(S) -> S] : \A i, j \in 1..Cardinality(S) : i # j => f[i] # f[j]}

\* storage.Storage.Read: the swarm's records, in no particular order.
StorageRead(s, infoHash) == Orderings({o \in s : o.InfoHash = infoHash})

\* PeerHandoutPolicy.AssignPeerPriority: every peer gets a priority, peers of
\* the requester's datacenter rank first.
PolicyAssignPeerPriority(ip, dc, peers) ==
    [i \in 1..Len(peers) |->
        [peers[i] EXCEPT !.Priority = IF peers[i].DC = dc THEN 1 ELSE 2]]

\* The subsequence of s at the indices in I, order kept.
RECURSIVE Pick(_, _)
Pick(s, I) ==
    IF s = <<>> THEN <<>>
    ELSE (IF 1 \in I THEN <<Head(s)>> ELSE <<>>)
         \o Pick(Tail(s), {i - 1 : i \in I \ {1}})

\* PeerHandoutPolicy.SamplePeers: at most `limit` of the peers.
PolicySamplePeers(peers, limit) ==
    {Pick(peers, I) : I \in {J \in SUBSET (1..Len(peers)) : Cardinality(J) <= limit}}

\* ---- the handler's calls ---------------------------------------------------

Called(h, call) == calls' = [calls EXCEPT ![h] = Append(@, call)]

\* A call succeeded: the handler goes on to the statement `to`.
Proceed(h, call, to) ==
    /\ Called(h, call)
    /\ pc' = [pc EXCEPT ![h] = to]
    /\ UNCHANGED <<w, ret>>

\* An error branch that answers but lacks its return: the handler goes on.
FailAndGoOn(h, call, by) ==
    /\ Called(h, call)
    /\ w' = [w EXCEPT ![h] = HttpError(@, by, StatusInternalServerError)]
    /\ pc' = [pc EXCEPT ![h] =
          CASE by = "update" -> "read"
            [] by = "read" -> "priority"
            [] by = "priority" -> "sample"
            [] OTHER -> "encode"]
    /\ UNCHANGED <<ret, store, lastUpdate, peerInfos>>

\* An error branch that undoes the announce's Update before returning.
FailWithRollback(h, call, by) ==
    /\ Called(h, call)
    /\ w' = [w EXCEPT ![h] = HttpError(@, by, StatusInternalServerError)]
    /\ pc' = [pc EXCEPT ![h] = "returned"]
    /\ ret' = [ret EXCEPT ![h] = by]
    /\ store' = IF by = "update" THEN store ELSE {o \in store : Key(o) # Key(peer[h])}
    /\ UNCHANGED <<lastUpdate, peerInfos>>

\* An error branch that makes the failed call a second time before giving up.
FailAfterRetry(h, call, by) ==
    IF Len(calls[h]) >= 1 /\ calls[h][Len(calls[h])].op = call.op
    THEN /\ Called(h, call)
         /\ w' = [w EXCEPT ![h] = HttpError(@, by, StatusInternalServerError)]
         /\ Returns(h, by)
         /\ UNCHANGED <<store, lastUpdate, peerInfos>>
    ELSE /\ Called(h, call)
         /\ UNCHANGED <<pc, w, ret, store, lastUpdate, peerInfos>>

\* if err != nil { http.Error(w, ..., http.StatusInternalServerError); return }
\* (lines 152-157, 160-165, 168-173, 177-186): nothing else is done.
Fail(h, call, by) ==
    /\ Called(h, call)
    /\ w' = [w EXCEPT ![h] = HttpError(@, by, StatusInternalServerError)]
    /\ Returns(h, by)
    /\ UNCHANGED <<store, lastUpdate, peerInfos>>

\* The record kept in a field of the handler's receiver, which every
\* invocation in flight writes: Update is passed what another invocation
\* left there.
UpdateArgShared(h) ==
    IF \E g \in Handlers \ {h} : peer[g] # NoPeer
    THEN peer[CHOOSE g \in Handlers \ {h} : peer[g] # NoPeer]
    ELSE peer[h]

\* Line 151: the record the handler passes to datastore.Update, a local of
\* the invocation.
UpdateArg(h) == peer[h]

\* Lines 151-157: datastore.Update(peer).
DatastoreUpdate(h) ==
    /\ pc[h] = "update"
    /\ \/ /\ Proceed(h, [op |-> "Update", peer |-> UpdateArg(h), err |-> FALSE], "read")
          /\ store' = StorageUpdate(store, UpdateArg(h))
          /\ lastUpdate' = [k \in DOMAIN lastUpdate \cup {Key(UpdateArg(h))} |->
                               IF k = Key(UpdateArg(h)) THEN UpdateArg(h) ELSE lastUpdate[k]]
          /\ UNCHANGED peerInfos
       \/ Fail(h, [op |-> "Update", peer |-> UpdateArg(h), err |-> TRUE], "update")
    /\ UNCHANGED <<query, peer>>
    /\ UNCHANGED metaVars

\* The swarm looked up by the peer's identifier instead of the torrent's.
ReadArgPeerID(h) == peer[h].PeerID

\* Line 159: the swarm the handler reads.
ReadArg(h) == peer[h].InfoHash

\* Lines 159-165: peerInfos, err := datastore.Read(infoHash).
DatastoreRead(h) ==
    /\ pc[h] = "read"
    /\ \/ \E got \in StorageRead(store, ReadArg(h)) :
             /\ Proceed(h, [op |-> "Read", infoHash |-> ReadArg(h), err |-> FALSE,
                            result |-> got], "priority")
             /\ peerInfos' = [peerInfos EXCEPT ![h] = got]
             /\ UNCHANGED <<store, lastUpdate>>
       \/ Fail(h, [op |-> "Read", infoHash |-> ReadArg(h), err |-> TRUE, result |-> <<>>],
               "read")
    /\ UNCHANGED <<query, peer>>
    /\ UNCHANGED metaVars

\* Line 167: the arguments of policy.AssignPeerPriority.
PriorityArgs(h) == [ip |-> peer[h].IP, dc |-> query[h].dc, peers |-> peerInfos[h]]

\* Lines 167-173: policy.AssignPeerPriority(peerIP, peerDC, peerInfos), which
\* annotates the peers behind the handler's pointers.
AssignPeerPriority(h) ==
    /\ pc[h] = "priority"
    /\ \/ /\ Proceed(h, [op |-> "AssignPeerPriority", args |-> PriorityArgs(h),
                         err |-> FALSE], "sample")
          /\ peerInfos' = [peerInfos EXCEPT ![h] =
                PolicyAssignPeerPriority(PriorityArgs(h).ip, PriorityArgs(h).dc,
                                         PriorityArgs(h).peers)]
          /\ UNCHANGED <<store, lastUpdate>>
       \/ Fail(h, [op |-> "AssignPeerPriority", args |-> PriorityArgs(h), err |-> TRUE],
               "priority")
    /\ UNCHANGED <<query, peer>>
    /\ UNCHANGED metaVars

\* Sampling from the peers as Read returned them, not as prioritised.
SampleArgsUnannotated(h) == [peers |-> calls[h][2].result, limit |-> Len(peerInfos[h])]

\* Sampling with a limit of one peer, whatever was read.
SampleArgsLimitOne(h) == [peers |-> peerInfos[h], limit |-> 1]

\* Line 176: the arguments of policy.SamplePeers.
SampleArgs(h) == [peers |-> peerInfos[h], limit |-> Len(peerInfos[h])]

\* Lines 175-186: peerInfos, err = policy.SamplePeers(peerInfos, len(peerInfos)).
SamplePeers(h) ==
    /\ pc[h] = "sample"
    /\ \/ \E got \in PolicySamplePeers(SampleArgs(h).peers, SampleArgs(h).limit) :
             /\ Proceed(h, [op |-> "SamplePeers", args |-> SampleArgs(h), err |-> FALSE,
                            result |-> got], "encode")
             /\ peerInfos' = [peerInfos EXCEPT ![h] = got]
             /\ UNCHANGED <<store, lastUpdate>>
       \/ Fail(h, [op |-> "SamplePeers", args |-> SampleArgs(h), err |-> TRUE,
                   result |-> <<>>], "sample")
    /\ UNCHANGED <<query, peer>>
    /\ UNCHANGED metaVars

\* Lines 190-195: derefPeerInfos[i] = *p, the sampled peers copied by value,
\* whole records, one by one and in place.
DerefPeerInfos(peers) == [i \in 1..Len(peers) |-> peers[i]]

\* The sampled peers handed over last to first.
ResponseReversed(h) ==
    [Interval |-> AnnounceInterval,
     Peers |-> [i \in 1..Len(peerInfos[h]) |->
                   peerInfos[h][Len(peerInfos[h]) + 1 - i]]]

\* Lines 198-201: the value handed to bencode.Marshal.
Response(h) == [Interval |-> AnnounceInterval, Peers |-> DerefPeerInfos(peerInfos[h])]

\* Lines 188-207: the content type is set and bencode.Marshal(w, response)
\* streams the encoding to the ResponseWriter.  It succeeds, or fails before
\* its first Write, or fails after having written a part of the encoding;
\* on failure the handler calls http.Error on the same ResponseWriter.
BencodeMarshal(h) ==
    /\ pc[h] = "encode"
    /\ LET typed == SetContentType(w[h], "text/html; charset=utf-8")
       IN  \/ /\ Called(h, [op |-> "Marshal", val |-> Response(h), err |-> FALSE])
              /\ w' = [w EXCEPT ![h] = Write(typed, [kind |-> "bencode", val |-> Response(h)])]
              /\ Returns(h, "ok")
           \/ /\ Called(h, [op |-> "Marshal", val |-> Response(h), err |-> TRUE])
              /\ w' = [w EXCEPT ![h] = HttpError(typed, "encode", StatusInternalServerError)]
              /\ Returns(h, "encode")
           \/ /\ Called(h, [op |-> "Marshal", val |-> Response(h), err |-> TRUE])
              /\ w' = [w EXCEPT ![h] =
                    HttpError(Write(typed, [kind |-> "partial"]),
                              "encode", StatusInternalServerError)]
              /\ Returns(h, "encode")
    /\ UNCHANGED <<store, lastUpdate, query, peer, peerInfos>>
    /\ UNCHANGED metaVars

\* The invocation is over: its locals and its ResponseWriter are gone, and
\* the server may run the handler again.
Finish(h) ==
    /\ pc[h] = "returned"
    /\ pc' = [pc EXCEPT ![h] = "idle"]
    /\ query' = [query EXCEPT ![h] = NoQuery]
    /\ peer' = [peer EXCEPT ![h] = NoPeer]
    /\ peerInfos' = [peerInfos EXCEPT ![h] = <<>>]
    /\ w' = [w EXCEPT ![h] = FreshWriter]
    /\ calls' = [calls EXCEPT ![h] = <<>>]
    /\ ret' = [ret EXCEPT ![h] = ""]
    /\ UNCHANGED <<store, lastUpdate>>
    /\ UNCHANGED metaVars

\* No invocation is in flight: the server takes up the next request.
Quiet == \A g \in Handlers : pc[g] = "idle"

\* Announces are served one after another, by any of the handler invocations:
\* a request is taken up when no invocation is in flight.  Every invocation
\* runs stage by stage against the datastore the earlier ones left behind.
Next ==
    \E h \in Handlers :
        \/ \E qv \in Queries : Quiet /\ ReceiveAnnounce(h, qv)
        \/ DatastoreUpdate(h)
        \/ DatastoreRead(h)
        \/ AssignPeerPriority(h)
        \/ SamplePeers(h)
        \/ BencodeMarshal(h)
        \/ Finish(h)

Spec == Init /\ [][Next]_vars

\* One step of an invocation past its parsing: a collaborator call and what
\* the handler does with its result.
AnnounceStep(h) ==
    \/ DatastoreUpdate(h)
    \/ DatastoreRead(h)
    \/ AssignPeerPriority(h)
    \/ SamplePeers(h)
    \/ BencodeMarshal(h)

\* Every collaborator call returns and the goroutine of an invocation keeps
\* being scheduled: an invocation that can take its next step takes it.
FairSpec == Init /\ [][Next]_vars /\ \A h \in Handlers : WF_vars(AnnounceStep(h))

\* The announces served concurrently: the same peer twice, another peer of
\* the same torrent, and a peer of another torrent.
ConcQueries ==
    {BaseQuery,
     [BaseQuery EXCEPT !.peer_id = <<>>],
     [BaseQuery EXCEPT !.info_hash = <<>>]}

\* net/http runs every request's handler on a goroutine of its own: a
\* request is taken up whatever the other invocations are doing, and the
\* invocations' datastore and policy calls interleave freely.  Each Update
\* and each Read is one step.
ConcNext ==
    \E h \in Handlers :
        \/ \E qv \in ConcQueries : ReceiveAnnounce(h, qv)
        \/ DatastoreUpdate(h)
        \/ DatastoreRead(h)
        \/ AssignPeerPriority(h)
        \/ SamplePeers(h)
        \/ BencodeMarshal(h)
        \/ Finish(h)

ConcSpec == Init /\ [][ConcNext]_vars

\* ------------------------------------------------------------------------
\* The info-hash and manifest endpoints
\* ------------------------------------------------------------------------

\* ---- net/url ---------------------------------------------------------------

\* Names are byte sequences: 37 is '%', 43 is '+', 32 is ' '.
IsHex(c) == c \in (48..57) \cup (65..70) \cup (97..102)

UnHex(c) == IF c <= 57 THEN c - 48 ELSE IF c <= 70 THEN c - 55 ELSE c - 87

\* url.QueryUnescape, first pass: a '%' not followed by two hex digits is an
\* EscapeError.
RECURSIVE BadEscape(_)
BadEscape(s) ==
    IF s = <<>> THEN FALSE
    ELSE IF Head(s) = 37
         THEN IF Len(s) < 3 \/ ~IsHex(s[2]) \/ ~IsHex(s[3])
              THEN TRUE
              ELSE BadEscape(SubSeq(s, 4, Len(s)))
         ELSE BadEscape(Tail(s))

\* url.QueryUnescape, second pass: %XX becomes the byte XX, '+' a space.
RECURSIVE Unescaped(_)
Unescaped(s) ==
    IF s = <<>> THEN <<>>
    ELSE IF Head(s) = 37
         THEN <<(16 * UnHex(s[2])) + UnHex(s[3])>> \o Unescaped(SubSeq(s, 4, Len(s)))
         ELSE IF Head(s) = 43
              THEN <<32>> \o Unescaped(Tail(s))
              ELSE <<Head(s)>> \o Unescaped(Tail(s))

QueryUnescape(s) ==
    IF BadEscape(s) THEN [err |-> TRUE, val |-> <<>>]
    ELSE [err |-> FALSE, val |-> Unescaped(s)]

\* ---- encoding/json ---------------------------------------------------------

\* The texts without white space and escapes: objects, arrays, strings of
\* letters, unsigned integers and the literals.  Each recogniser takes the
\* text and the index it starts at, and yields the index after the value
\* it read, or 0.
Letters == {"a", "b", "c", "d", "e", "f", "l", "n", "r", "s", "t", "u"}

At(s, i) == IF i >= 1 /\ i <= Len(s) THEN s[i] ELSE ""

RECURSIVE JRun(_, _, _)
JRun(s, i, of) == IF At(s, i) \in of THEN JRun(s, i + 1, of) ELSE i

JString(s, i) ==
    IF At(s, i) = "\"" /\ At(s, JRun(s, i + 1, Letters)) = "\""
    THEN JRun(s, i + 1, Letters) + 1
    ELSE 0

JDigits == {Digits[d] : d \in 1..Len(Digits)}

JNumber(s, i) ==
    IF At(s, i) = "0" THEN i + 1
    ELSE IF At(s, i) \in JDigits THEN JRun(s, i, JDigits) ELSE 0

JLiterals == {<<"n","u","l","l">>, <<"t","r","u","e">>, <<"f","a","l","s","e">>}

StartsWith(s, i, lit) ==
    i + Len(lit) - 1 <= Len(s) /\ SubSeq(s, i, i + Len(lit) - 1) = lit

JLiteral(s, i) ==
    IF \E lit \in JLiterals : StartsWith(s, i, lit)
    THEN i + Len(CHOOSE lit \in JLiterals : StartsWith(s, i, lit))
    ELSE 0

RECURSIVE JValue(_, _)
RECURSIVE JMembers(_, _)
RECURSIVE JElements(_, _)
JValue(s, i) ==
    CASE At(s, i) = "{" -> IF At(s, i + 1) = "}" THEN i + 2 ELSE JMembers(s, i + 1)
      [] At(s, i) = "[" -> IF At(s, i + 1) = "]" THEN i + 2 ELSE JElements(s, i + 1)
      [] At(s, i) = "\"" -> JString(s, i)
      [] At(s, i) \in JDigits -> JNumber(s, i)
      [] OTHER -> JLiteral(s, i)

JMembers(s, i) ==
    LET k == JString(s, i)
        v == IF k # 0 /\ At(s, k) = ":" THEN JValue(s, k + 1) ELSE 0
    IN  IF v = 0 THEN 0
        ELSE IF At(s, v) = "," THEN JMembers(s, v + 1)
        ELSE IF At(s, v) = "}" THEN v + 1
        ELSE 0

JElements(s, i) ==
    LET v == JValue(s, i)
    IN  IF v = 0 THEN 0
        ELSE IF At(s, v) = "," THEN JElements(s, v + 1)
        ELSE IF At(s, v) = "]" THEN v + 1
        ELSE 0

\* The whole text is one JSON value.
ValidJSON(s) == JValue(s, 1) = Len(s) + 1

\* Lines 357, 372: json.Unmarshal(manifest, &jsonManifest) with jsonManifest a
\* map[string]interface{}: a syntax error is an error, and so is a value
\* that is neither an object nor null.
UnmarshalIntoMap(s) ==
    [err |-> ~(ValidJSON(s) /\ (At(s, 1) = "{" \/ s = <<"n","u","l","l">>))]

\* ---- the requests ----------------------------------------------------------

\* name values: absent, "t", "u".
TorrentNames == {<<>>, <<116>>, <<117>>}

\* info_hash values: absent, "41", "42".
TorrentInfoHashes == {<<>>, <<"4","1">>, <<"4","2">>}

\* Tag names as routed: empty, "a", "a%2Fb+c", "a%z".
TagNames == {<<>>, <<97>>, <<97, 37, 50, 70, 98, 43, 99>>, <<97, 37, 122>>}

\* Request bodies: {"a":1}, [1], null, {"a": cut short, and the empty body.
Bodies ==
    {<<"{","\"","a","\"",":","1","}">>,
     <<"[","1","]">>,
     <<"n","u","l","l">>,
     <<"{","\"","a","\"",":">>,
     <<>>}

\* ---- the datastore, at its interface ---------------------------------------

NoTorrent == [TorrentName |-> <<>>, InfoHash |-> <<>>, found |-> FALSE]

\* storage.Storage.ReadTorrent: the entry under the name, or none.
StorageReadTorrent(t, name) ==
    IF name \in DOMAIN t
    THEN [TorrentName |-> name, InfoHash |-> t[name], found |-> TRUE]
    ELSE NoTorrent

\* A key-value store with the key k set to v.
Put(t, k, v) == [n \in DOMAIN t \cup {k} |-> IF n = k THEN v ELSE t[n]]

\* storage.Storage.CreateTorrent: the association name -> info hash is kept.
StorageCreateTorrent(t, info) == Put(t, info.TorrentName, info.InfoHash)

\* storage.Storage.UpdateManifest: the blob is kept under the tag.
StorageUpdateManifest(m, manifest) == Put(m, manifest.TagName, manifest.Manifest)

\* ---- the handlers ----------------------------------------------------------

\* Every handler's first statement sets the content type.
Typed == SetContentType(FreshWriter, "text/html; charset=utf-8")

\* w.WriteHeader(code); w.Write(text).
Answer(code, text) == Write(WriteHeader(Typed, code), [kind |-> "text", text |-> text])

Serve(handler, name, arg, made, rw) ==
    served' = [handler |-> handler, name |-> name, arg |-> arg, calls |-> made, w |-> rw]

\* Lines 214-249.
GetInfoHashHandler(name) ==
    /\ IF name = <<>>
       THEN Serve("GetInfoHash", name, <<>>, <<>>,
                  Answer(StatusBadRequest, "no torrent name specified"))
       ELSE \/ Serve("GetInfoHash", name, <<>>,
                     <<[op |-> "ReadTorrent", name |-> name, err |-> TRUE]>>,
                     Answer(StatusInternalServerError, "ReadTorrent"))
            \/ Serve("GetInfoHash", name, <<>>,
                     <<[op |-> "ReadTorrent", name |-> name, err |-> FALSE]>>,
                     IF StorageReadTorrent(torrents, name).found
                     THEN Write(WriteHeader(Typed, StatusOK),
                                [kind |-> "infohash",
                                 text |-> StorageReadTorrent(torrents, name).InfoHash])
                     ELSE Answer(StatusNotFound, "not found"))
    /\ UNCHANGED <<torrents, manifests>>
    /\ UNCHANGED announceVars

\* A query that lacks only one of the two values passes.
IncompleteQueryBothMissing(name, infohash) == name = <<>> /\ infohash = <<>>

\* Line 257: if name == "" || infohash == "".
IncompleteQuery(name, infohash) == name = <<>> \/ infohash = <<>>

\* Lines 251-284.
PostInfoHashHandler(name, infohash) ==
    /\ LET info == [TorrentName |-> name, InfoHash |-> infohash]
       IN  IF IncompleteQuery(name, infohash)
           THEN /\ Serve("PostInfoHash", name, infohash, <<>>,
                         Answer(StatusBadRequest, "incomplete query"))
                /\ UNCHANGED torrents
           ELSE \/ /\ Serve("PostInfoHash", name, infohash,
                            <<[op |-> "CreateTorrent", info |-> info, err |-> TRUE]>>,
                            Answer(StatusInternalServerError, "CreateTorrent"))
                   /\ UNCHANGED torrents
                \/ /\ Serve("PostInfoHash", name, infohash,
                            <<[op |-> "CreateTorrent", info |-> info, err |-> FALSE]>>,
                            Answer(StatusOK, "Created"))
                   /\ torrents' = StorageCreateTorrent(torrents, info)
    /\ UNCHANGED manifests
    /\ UNCHANGED announceVars

\* The tag stored under the name as it was routed, escapes and all.
ManifestOfEscaped(name, body) == [TagName |-> name, Manifest |-> body, Flags |-> 0]

\* Lines 396-397: &storage.Manifest{TagName: name, Manifest: string(manifest[:]),
\* Flags: 0}, name being the unescaped name by then (line 343).
ManifestOf(name, body) ==
    [TagName |-> QueryUnescape(name).val, Manifest |-> body, Flags |-> 0]

\* Lines 333-405.  readErr: ioutil.ReadAll(r.Body) fails.
PostManifestHandler(name, body, readErr) ==
    /\ LET arg == [body |-> body, readErr |-> readErr]
           call == [op |-> "UpdateManifest", manifest |-> ManifestOf(name, body)]
       IN  CASE Len(name) = 0 ->
                  /\ Serve("PostManifest", name, arg, <<>>,
                           Answer(StatusBadRequest, "Failed to parse a tag name"))
                  /\ UNCHANGED manifests
             [] Len(name) # 0 /\ QueryUnescape(name).err ->
                  /\ Serve("PostManifest", name, arg, <<>>,
                           Answer(StatusBadRequest, "cannot unescape manifest name"))
                  /\ UNCHANGED manifests
             [] Len(name) # 0 /\ ~QueryUnescape(name).err /\ readErr ->
                  /\ Serve("PostManifest", name, arg, <<>>,
                           Answer(StatusInternalServerError, "Could not read manifest"))
                  /\ UNCHANGED manifests
             [] Len(name) # 0 /\ ~QueryUnescape(name).err /\ ~readErr
                    /\ UnmarshalIntoMap(body).err ->
                  /\ Serve("PostManifest", name, arg, <<>>,
                           Answer(StatusBadRequest, "invalid json"))
                  /\ UNCHANGED manifests
             [] OTHER ->
                  \/ /\ Serve("PostManifest", name, arg,
                              <<call @@ [err |-> TRUE]>>,
                              Answer(StatusInternalServerError, "Failed to update manifest"))
                     /\ UNCHANGED manifests
                  \/ /\ Serve("PostManifest", name, arg,
                              <<call @@ [err |-> FALSE]>>,
                              WriteHeader(Typed, StatusOK))
                     /\ manifests' = StorageUpdateManifest(manifests, ManifestOf(name, body))
    /\ UNCHANGED torrents
    /\ UNCHANGED announceVars

\* The info-hash and manifest requests, served one at a time against the
\* datastore the earlier ones left behind.
MetaNext ==
    \/ \E name \in TorrentNames : GetInfoHashHandler(name)
    \/ \E name \in TorrentNames, infohash \in TorrentInfoHashes :
           PostInfoHashHandler(name, infohash)
    \/ \E name \in TagNames, body \in Bodies, readErr \in BOOLEAN :
           PostManifestHandler(name, body, readErr)

MetaSpec == Init /\ [][MetaNext]_vars

\* ------------------------------------------------------------------------
\* Properties
\* ------------------------------------------------------------------------

NumericFields == {"port", "ip", "downloaded", "uploaded", "left"}

Ops(h) == [i \in 1..Len(calls[h]) |-> calls[h][i].op]

Count(h, op) == Cardinality({i \in 1..Len(calls[h]) : calls[h][i].op = op})

InFlight(h) == pc[h] # "idle"

\* The five numeric query values parsed: the handler got past line 134.
Parsed(h) == InFlight(h) /\ ret[h] \notin NumericFields

ServerError(rw) == rw.status >= 500 /\ rw.status <= 599

ClientError(rw) == rw.status >= 400 /\ rw.status <= 499

\* A text that is an integer in decimal notation: an optional sign and one
\* or more digits.
IsIntegerText(s) ==
    LET d == IF s # <<>> /\ Head(s) \in {"+", "-"} THEN Tail(s) ELSE s
    IN  d # <<>> /\ \A i \in 1..Len(d) : IsDigit(d[i])

C2_MalformedStopsAtValidation ==
    /\ [](\A h \in Handlers :
            (InFlight(h) /\ \E f \in NumericFields : ~IsIntegerText(query[h][f])) =>
                /\ pc[h] = "returned"
                /\ ret[h] \in NumericFields
                /\ ~IsIntegerText(query[h][ret[h]])
                /\ calls[h] = <<>>
                /\ peer[h] = NoPeer)
    /\ [][\A h \in Handlers :
            (pc'[h] # "idle" /\ \E f \in NumericFields : ~IsIntegerText(query'[h][f])) =>
                /\ store' = store
                /\ lastUpdate' = lastUpdate]_vars

\* C2 happens: an announce with a malformed ip returned from validation
\* while the datastore held records.
C2_Witness ==
    \E h \in Handlers :
        /\ pc[h] = "returned"
        /\ ~IsIntegerText(query[h].ip)
        /\ ret[h] = "ip"
        /\ store # {}

\* C3: an announce with a malformed numeric value is answered with a 4xx
\* status.
C3_MalformedIsClientError ==
    \A h \in Handlers :
        (pc[h] = "returned" /\ \E f \in NumericFields : ~IsIntegerText(query[h][f])) =>
            ClientError(w[h])

\* C4: when Update, Read, AssignPeerPriority or SamplePeers returns an error
\* the announce is answered 5xx and the failed call is the handler's last:
\* no later stage is invoked and nothing is encoded.
C4_FailureShortCircuits ==
    \A h \in Handlers :
        \A i \in 1..Len(calls[h]) :
            (calls[h][i].err /\ calls[h][i].op # "Marshal") =>
                /\ i = Len(calls[h])
                /\ pc[h] = "returned"
                /\ ret[h] \in {"update", "read", "priority", "sample"}
                /\ ServerError(w[h])
                /\ Len(w[h].body) = 1
                /\ w[h].body[1].kind = "error"

\* C4 happens: SamplePeers failed after the three stages before it succeeded.
C4_Witness ==
    \E h \in Handlers :
        /\ Ops(h) = <<"Update", "Read", "AssignPeerPriority", "SamplePeers">>
        /\ calls[h][4].err
        /\ pc[h] = "returned"

\* C5: nothing is rolled back.  The handler makes no repository call after a
\* failure and at most one Update; a record whose Update succeeded is in the
\* datastore whatever the later stages did; and the datastore holds, for
\* every (InfoHash, PeerID), exactly the record of the last successful
\* Update for it.
C5_NoRollback ==
    /\ \A a, b \in store : Key(a) = Key(b) => a = b
    /\ store = {lastUpdate[k] : k \in DOMAIN lastUpdate}
    /\ \A k \in DOMAIN lastUpdate : Key(lastUpdate[k]) = k
    /\ \A h \in Handlers :
          /\ Count(h, "Update") <= 1
          /\ \A i \in 1..Len(calls[h]) :
                /\ calls[h][i].op \in
                      {"Update", "Read", "AssignPeerPriority", "SamplePeers", "Marshal"}
                /\ calls[h][i].op = "Update" => i = 1
          /\ (calls[h] # <<>> /\ ~calls[h][1].err) =>
                /\ calls[h][1].peer \in store
                /\ lastUpdate[Key(calls[h][1].peer)] = calls[h][1].peer

\* C5 happens: Read failed after an Update that replaced an older record of
\* the same peer, and the new record is the one the datastore holds.
C5_Witness ==
    \E h \in Handlers :
        /\ ret[h] = "read"
        /\ calls[h][1].peer \in store
        /\ calls[h][1].peer # BuildPeer(BaseQuery)
        /\ Key(calls[h][1].peer) = Key(BuildPeer(BaseQuery))
        /\ Cardinality(store) = 2

\* The unsigned value 2^64 as limbs: eight zero limbs and a carry.
TwoTo64 == <<0, 0, 0, 0, 0, 0, 0, 0, 1>>

Left2To63 ==
    <<"9","2","2","3","3","7","2","0","3","6","8","5","4","7","7","5","8","0","8">>

Left2To64Minus1 ==
    <<"1","8","4","4","6","7","4","4","0","7","3","7","0","9","5","5","1","6","1","5">>

Left2To63Minus1 ==
    <<"9","2","2","3","3","7","2","0","3","6","8","5","4","7","7","5","8","0","7">>

\* C6: a left value v of 2^63..2^64-1 is accepted and the record given to
\* Update has BytesLeft = v - 2^64 (BytesLeft is negative and |BytesLeft| + v
\* = 2^64); a smaller v is stored as it is.
C6_LeftNarrowing ==
    \A h \in Handlers :
        /\ (InFlight(h) /\ query[h].left \in {Left2To63, Left2To64Minus1}) =>
              /\ Parsed(h)
              /\ pc[h] # "update" => Count(h, "Update") = 1
        /\ \A i \in 1..Len(calls[h]) :
              calls[h][i].op = "Update" =>
                 LET v == ParseUint(query[h].left, 64).val
                     b == calls[h][i].peer.BytesLeft
                 IN  /\ IF v[8] >= 128
                        THEN b.neg /\ AddLimbs(b.mag, v, 0) = TwoTo64
                        ELSE b = [neg |-> FALSE, mag |-> v]
                     /\ query[h].left = Left2To64Minus1 =>
                           b = [neg |-> TRUE, mag |-> <<1, 0, 0, 0, 0, 0, 0, 0>>]
                     /\ query[h].left = Left2To63 =>
                           b = [neg |-> TRUE, mag |-> <<0, 0, 0, 0, 0, 0, 0, 128>>]
                     /\ query[h].left = Left2To63Minus1 =>
                           b = [neg |-> FALSE,
                                mag |-> <<255, 255, 255, 255, 255, 255, 255, 127>>]

\* C6 happens: left = 2^64-1 went through Update and is stored as -1.
C6_Witness ==
    \E h \in Handlers :
        /\ Len(calls[h]) >= 1
        /\ query[h].left = Left2To64Minus1
        /\ ~calls[h][1].err
        /\ calls[h][1].peer.BytesLeft.neg
        /\ calls[h][1].peer \in store

\* C7: an announce with a negative port fails validation and never reaches
\* Update, and no stored record has a negative Port.
C7_NegativePortRejected ==
    /\ \A h \in Handlers :
          (InFlight(h) /\ IsIntegerText(query[h].port) /\ Head(query[h].port) = "-") =>
              /\ pc[h] = "returned"
              /\ ret[h] = "port"
              /\ calls[h] = <<>>
    /\ \A p \in store : ~p.Port.neg

\* The integer a decimal text stands for; for texts within 32 bits.
RECURSIVE NegatedValue(_, _)
NegatedValue(d, acc) ==
    IF d = <<>> THEN acc ELSE NegatedValue(Tail(d), acc * 10 - DigitVal(Head(d)))

IntOfText(s) ==
    IF Head(s) = "-" THEN NegatedValue(Tail(s), 0)
    ELSE IF Head(s) = "+" THEN 0 - NegatedValue(Tail(s), 0)
    ELSE 0 - NegatedValue(s, 0)

\* The four octets of the 32-bit two's-complement form of n, most
\* significant first.
Octets(n) ==
    <<(n \div 16777216) % 256, (n \div 65536) % 256, (n \div 256) % 256, n % 256>>

\* C8: the IP of the record given to Update is the dotted-decimal form of
\* the four octets of the ip integer, most significant first; ip=2130706433
\* with port=6881 gives IP 127.0.0.1 and Port 6881.
C8_IPDottedDecimal ==
    \A h \in Handlers :
        \A i \in 1..Len(calls[h]) :
            calls[h][i].op = "Update" =>
                LET p == calls[h][i].peer
                IN  /\ p.IP = IPString(Octets(IntOfText(query[h].ip)))
                    /\ (/\ query[h].ip = <<"2","1","3","0","7","0","6","4","3","3">>
                        /\ query[h].port = <<"6","8","8","1">>) =>
                          /\ p.IP = <<"1","2","7",".","0",".","0",".","1">>
                          /\ p.Port = [neg |-> FALSE, mag |-> <<225, 26, 0, 0, 0, 0, 0, 0>>]
                    /\ query[h].ip = <<"-","1","0","6","2","7","3","1","7","7","5">> =>
                          p.IP = <<"1","9","2",".","1","6","8",".","0",".","1">>

\* C8 happens: the announce of the scenario was stored by a successful
\* Update as 127.0.0.1:6881.
C8_Witness ==
    \E h \in Handlers :
        /\ Len(calls[h]) >= 1
        /\ query[h] = BaseQuery
        /\ ~calls[h][1].err
        /\ calls[h][1].peer.IP = <<"1","2","7",".","0",".","0",".","1">>
        /\ calls[h][1].peer \in store

\* C9: SamplePeers is only called as the fourth call, after a successful
\* Read and the one successful AssignPeerPriority; AssignPeerPriority got the
\* record's IP, the request's dc and the peers Read returned, and SamplePeers
\* gets those same peers, each with its priority assigned.
C9_PriorityBeforeSampling ==
    \A h \in Handlers :
        /\ Count(h, "AssignPeerPriority") <= 1
        /\ \A i \in 1..Len(calls[h]) :
              calls[h][i].op = "AssignPeerPriority" =>
                 /\ i = 3
                 /\ calls[h][2].op = "Read" /\ ~calls[h][2].err
                 /\ calls[h][3].args.ip = calls[h][1].peer.IP
                 /\ calls[h][3].args.dc = query[h].dc
                 /\ calls[h][3].args.peers = calls[h][2].result
        /\ \A i \in 1..Len(calls[h]) :
              calls[h][i].op = "SamplePeers" =>
                 /\ i = 4
                 /\ calls[h][3].op = "AssignPeerPriority" /\ ~calls[h][3].err
                 /\ LET given == calls[h][4].args.peers
                        read  == calls[h][2].result
                    IN  /\ Len(given) = Len(read)
                        /\ \A j \in 1..Len(given) :
                              /\ [given[j] EXCEPT !.Priority = 0] = read[j]
                              /\ given[j].Priority # 0

\* C9 happens: SamplePeers was called on two peers of different priority.
C9_Witness ==
    \E h \in Handlers :
        /\ Len(calls[h]) >= 4
        /\ ~calls[h][4].err
        /\ Len(calls[h][4].args.peers) = 2
        /\ calls[h][4].args.peers[1].Priority # calls[h][4].args.peers[2].Priority

\* C10: when bencode.Marshal fails the answer is a 5xx status and carries no
\* part of a success body.
C10_EncodeFailureIsServerError ==
    \A h \in Handlers :
        ret[h] = "encode" =>
            /\ ServerError(w[h])
            /\ \A j \in 1..Len(w[h].body) : w[h].body[j].kind = "error"

\* C11: every value handed to bencode.Marshal carries the configured announce
\* interval and, as its peers, the sequence SamplePeers returned in the same
\* request: the same length, and peer i of the response is sampled peer i.
\* On success the body written to the ResponseWriter is the encoding of that
\* very value.
C11_ResponseIsSample ==
    \A h \in Handlers : \A i \in 1..Len(calls[h]) :
        calls[h][i].op = "Marshal" =>
            /\ i >= 2
            /\ calls[h][i - 1].op = "SamplePeers"
            /\ ~calls[h][i - 1].err
            /\ calls[h][i].val.Interval = AnnounceInterval
            /\ Len(calls[h][i].val.Peers) = Len(calls[h][i - 1].result)
            /\ \A k \in 1..Len(calls[h][i - 1].result) :
                   calls[h][i].val.Peers[k] = calls[h][i - 1].result[k]
            /\ (ret[h] = "ok" =>
                   w[h].body = <<[kind |-> "bencode",
                                  val |-> [Interval |-> AnnounceInterval,
                                           Peers |-> calls[h][i - 1].result]]>>)

\* A successful announce whose response lists two different sampled peers.
C11_Witness ==
    \E h \in Handlers :
        /\ ret[h] = "ok"
        /\ Len(calls[h]) = 5
        /\ Len(calls[h][5].val.Peers) = 2
        /\ calls[h][5].val.Peers[1] # calls[h][5].val.Peers[2]
        /\ calls[h][5].val.Peers = calls[h][4].result

\* What one invocation holds: its locals and its ResponseWriter.
Locals(h) == <<pc[h], query[h], peer[h], peerInfos[h], w[h], calls[h], ret[h]>>

\* C12: with announces interleaved freely over an atomic Update and an
\* atomic Read, (a) every announce that completes successfully was given a
\* Read result holding a record of its own (info_hash, peer_id); (b) an
\* invocation's calls are made of its own request only (the record passed to
\* Update is the one built from its own query, the swarm read is its own
\* torrent's, the priorities are asked for its own address and datacenter)
\* and no step of one invocation changes what another invocation holds;
\* (c) the datastore never holds two records of one (info_hash, peer_id).
C12_ConcurrentAnnounces ==
    /\ [](\A h \in Handlers :
            /\ (ret[h] = "ok" =>
                   \E k \in 1..Len(calls[h][2].result) :
                       Key(calls[h][2].result[k]) =
                           <<HexEncode(query[h].info_hash), HexEncode(query[h].peer_id)>>)
            /\ (Len(calls[h]) >= 1 => calls[h][1].peer = BuildPeer(query[h]))
            /\ (Len(calls[h]) >= 2 =>
                   calls[h][2].infoHash = HexEncode(query[h].info_hash))
            /\ (Len(calls[h]) >= 3 =>
                   /\ calls[h][3].args.ip = PeerIP(query[h])
                   /\ calls[h][3].args.dc = query[h].dc
                   /\ calls[h][3].args.peers = calls[h][2].result))
    /\ [](\A p, q \in store : Key(p) = Key(q) => p = q)
    /\ [][\A h, g \in Handlers :
            (h # g /\ Locals(h)' # Locals(h)) => Locals(g)' = Locals(g)]_vars

\* Two announces in flight at once on one torrent, of different peers, the
\* second past its Read while the first has completed successfully with both
\* peers in its snapshot.
C12_Witness ==
    \E h, g \in Handlers :
        /\ h # g
        /\ ret[h] = "ok"
        /\ Len(calls[h][2].result) = 2
        /\ pc[g] \in {"priority", "sample", "encode"}
        /\ Key(peer[g]) # Key(peer[h])
        /\ peer[g].InfoHash = peer[h].InfoHash

\* The fields of a peer that the announce protocol shows: identity, address
\* and port.
ProtocolVisibleFields == {"PeerID", "IP", "Port"}

\* C13: the peers handed to bencode.Marshal carry protocol-visible fields
\* only: no datacenter tag and no byte counters are part of the value that
\* is encoded into the announce response.
C13_OnlyProtocolFields ==
    \A h \in Handlers : \A i \in 1..Len(calls[h]) :
        calls[h][i].op = "Marshal" =>
            \A k \in 1..Len(calls[h][i].val.Peers) :
                DOMAIN calls[h][i].val.Peers[k] \subseteq ProtocolVisibleFields

\* C14: GetInfoHashHandler ends in exactly one of four ways: an empty name is
\* answered 400 without any datastore call; a failing ReadTorrent 500; no
\* entry under the name 404; otherwise 200 with the stored info hash as the
\* body.  PostInfoHashHandler calls CreateTorrent only with a non-empty name
\* and a non-empty info_hash; a request lacking either is answered 400, and
\* neither it nor any lookup changes the torrents kept.
C14_InfoHashOutcomes ==
    /\ [](served.handler = "GetInfoHash" =>
            /\ served.w.status \in
                   {StatusBadRequest, StatusInternalServerError, StatusNotFound, StatusOK}
            /\ (served.w.status = StatusBadRequest <=> served.name = <<>>)
            /\ (served.name = <<>> => served.calls = <<>>)
            /\ (served.name # <<>> =>
                   /\ Len(served.calls) = 1
                   /\ served.calls[1].op = "ReadTorrent"
                   /\ served.calls[1].name = served.name
                   /\ (served.w.status = StatusInternalServerError <=> served.calls[1].err)
                   /\ (served.w.status = StatusNotFound <=>
                          ~served.calls[1].err /\ served.name \notin DOMAIN torrents)
                   /\ (served.w.status = StatusOK <=>
                          ~served.calls[1].err /\ served.name \in DOMAIN torrents)
                   /\ (served.w.status = StatusOK =>
                          served.w.body = <<[kind |-> "infohash",
                                             text |-> torrents[served.name]]>>)))
    /\ [](served.handler = "PostInfoHash" =>
            /\ (served.calls # <<>> =>
                   /\ served.name # <<>>
                   /\ served.arg # <<>>
                   /\ Len(served.calls) = 1
                   /\ served.calls[1].op = "CreateTorrent"
                   /\ served.calls[1].info =
                          [TorrentName |-> served.name, InfoHash |-> served.arg])
            /\ (served.name = <<>> \/ served.arg = <<>> =>
                   served.calls = <<>> /\ served.w.status = StatusBadRequest))
    /\ [][(\/ served'.handler = "GetInfoHash"
           \/ /\ served'.handler = "PostInfoHash"
              /\ (served'.name = <<>> \/ served'.arg = <<>>))
          => torrents' = torrents]_vars

\* A lookup answered 200 with the info hash registered before, two torrents
\* being registered.
C14_Witness ==
    /\ served.handler = "GetInfoHash"
    /\ served.w.status = StatusOK
    /\ served.w.body = <<[kind |-> "infohash", text |-> <<"4","2">>]>>
    /\ DOMAIN torrents = {<<116>>, <<117>>}

\* The tag names that unescape, with what they unescape to: "a" is "a",
\* "a%2Fb+c" is "a/b c".
UnescapedTag(name) ==
    CASE name = <<97>> -> <<97>>
      [] name = <<97, 37, 50, 70, 98, 43, 99>> -> <<97, 47, 98, 32, 99>>
      [] OTHER -> <<>>

\* C15: PostManifestHandler calls UpdateManifest only for a tag name that is
\* non-empty and unescapes, with a body that was read and is valid JSON; the
\* manifest it passes has the unescaped name as its tag and the body,
\* unchanged, as its blob.  A request that is not of this kind makes no call
\* and is answered with a 4xx or 5xx status; whenever no call is made or the
\* call fails the manifests kept are unchanged, and after a successful call
\* the body is what is kept under the unescaped name.
C15_ManifestStoredUnescaped ==
    /\ [](served.handler = "PostManifest" =>
            /\ (served.calls # <<>> =>
                   /\ served.name # <<>>
                   /\ UnescapedTag(served.name) # <<>>
                   /\ ~served.arg.readErr
                   /\ ValidJSON(served.arg.body)
                   /\ Len(served.calls) = 1
                   /\ served.calls[1].op = "UpdateManifest"
                   /\ served.calls[1].manifest.TagName = UnescapedTag(served.name)
                   /\ served.calls[1].manifest.Manifest = served.arg.body)
            /\ (\/ served.name = <<>>
                \/ UnescapedTag(served.name) = <<>>
                \/ ~ValidJSON(served.arg.body)
                => served.calls = <<>>)
            /\ (served.calls = <<>> \/ served.calls[1].err =>
                   served.w.status \in 400..599)
            /\ (served.calls # <<>> /\ ~served.calls[1].err =>
                   /\ served.w.status = StatusOK
                   /\ UnescapedTag(served.name) \in DOMAIN manifests
                   /\ manifests[UnescapedTag(served.name)] = served.arg.body))
    /\ [][(/\ served'.handler = "PostManifest"
           /\ (served'.calls = <<>> \/ served'.calls[1].err))
          => manifests' = manifests]_vars

\* The manifest {"a":1} stored under "a/b c" by a request for tag "a%2Fb+c".
C15_Witness ==
    /\ served.handler = "PostManifest"
    /\ served.name = <<97, 37, 50, 70, 98, 43, 99>>
    /\ served.w.status = StatusOK
    /\ <<97, 47, 98, 32, 99>> \in DOMAIN manifests
    /\ manifests[<<97, 47, 98, 32, 99>>] = <<"{","\"","a","\"",":","1","}">>

\* The stages that call a collaborator, in the handler's order.
StageOrder == <<"Update", "Read", "AssignPeerPriority", "SamplePeers", "Marshal">>

\* C16: within one request the calls made are a prefix of Update, Read,
\* AssignPeerPriority, SamplePeers, encode (each stage at most once, in that
\* order, none retried); an announce that has returned has exactly one
\* outcome, done or failed at one stage, and one committed response status,
\* neither of which changes afterwards; and, every collaborator call
\* returning, an announce in flight eventually returns.
C16_NoRetryAndTerminates ==
    /\ [](\A h \in Handlers :
            /\ Len(calls[h]) <= Len(StageOrder)
            /\ Ops(h) = SubSeq(StageOrder, 1, Len(calls[h]))
            /\ (pc[h] = "returned" <=> ret[h] # "")
            /\ (pc[h] = "returned" =>
                   /\ w[h].status \in {StatusOK, StatusInternalServerError}
                   /\ (ret[h] = "ok" <=>
                          Len(calls[h]) = Len(StageOrder)
                              /\ \A i \in 1..Len(calls[h]) : ~calls[h][i].err)
                   /\ (ret[h] # "ok" /\ calls[h] # <<>> =>
                          /\ calls[h][Len(calls[h])].err
                          /\ \A i \in 1..(Len(calls[h]) - 1) : ~calls[h][i].err))
            /\ (pc[h] \notin {"idle", "returned"} => w[h].status = 0))
    /\ \A h \in Handlers : (pc[h] \notin {"idle", "returned"}) ~> (pc[h] = "returned")
    /\ [][\A h \in Handlers :
            pc[h] = "returned" /\ pc'[h] # "idle" =>
                pc'[h] = "returned" /\ ret'[h] = ret[h] /\ calls'[h] = calls[h]
                    /\ w'[h] = w[h]]_vars

\* An announce that failed at SamplePeers after three successful stages,
\* returned with its one status.
C16_Witness ==
    \E h \in Handlers :
        /\ pc[h] = "returned"
        /\ ret[h] = "sample"
        /\ Ops(h) = SubSeq(StageOrder, 1, 4)
        /\ w[h].status = StatusInternalServerError

\* C17: SamplePeers is called with limit equal to the number of peers Read
\* returned in the same request, whatever the query values were; what it
\* returns, and so the peers of the response, are never more than that
\* snapshot holds, and every peer of the response is a peer of the snapshot.
C17_LimitIsSnapshotSize ==
    \A h \in Handlers : \A i \in 1..Len(calls[h]) :
        /\ (calls[h][i].op = "SamplePeers" =>
               /\ i = 4
               /\ calls[h][2].op = "Read"
               /\ calls[h][i].args.limit = Len(calls[h][2].result)
               /\ Len(calls[h][i].args.peers) = Len(calls[h][2].result)
               /\ Len(calls[h][i].result) <= Len(calls[h][2].result))
        /\ (calls[h][i].op = "Marshal" =>
               /\ Len(calls[h][i].val.Peers) <= Len(calls[h][2].result)
               /\ \A k \in 1..Len(calls[h][i].val.Peers) :
                      \E j \in 1..Len(calls[h][2].result) :
                          Key(calls[h][i].val.Peers[k]) = Key(calls[h][2].result[j]))

\* A snapshot of two peers sampled with limit 2, of which the response of an
\* announce with dc absent lists one.
C17_Witness ==
    \E h \in Handlers :
        /\ ret[h] = "ok"
        /\ query[h].dc = ""
        /\ Len(calls[h][2].result) = 2
        /\ calls[h][4].args.limit = 2
        /\ Len(calls[h][5].val.Peers) = 1

\* Of two digit texts of one length, a stands for the greater number.
DecGreater(a, b) ==
    \E i \in 1..Len(a) :
        /\ DigitVal(a[i]) > DigitVal(b[i])
        /\ \A j \in 1..(i - 1) : a[j] = b[j]

RECURSIVE NoLeadingZeros(_)
NoLeadingZeros(d) ==
    IF Len(d) > 1 /\ Head(d) = "0" THEN NoLeadingZeros(Tail(d)) ELSE d

\* The integer text s stands for a number outside [-2^31, 2^31 - 1].
OutsideInt32(s) ==
    LET neg == Head(s) = "-"
        d == NoLeadingZeros(IF Head(s) \in {"+", "-"} THEN Tail(s) ELSE s)
        most == IF neg THEN <<"2","1","4","7","4","8","3","6","4","8">>
                ELSE <<"2","1","4","7","4","8","3","6","4","7">>
    IN  Len(d) > Len(most) \/ (Len(d) = Len(most) /\ DecGreater(d, most))

\* C18: an announce whose ip is an integer outside [-2^31, 2^31 - 1] (such as
\* 3232235521) returns from validation at the ip: no collaborator is called
\* and no record is built for it, with whatever address; the records kept
\* carry only addresses that announces with an ip in range gave.
C18_WideIPRejected ==
    /\ \A h \in Handlers :
          (InFlight(h) /\ IsIntegerText(query[h].ip) /\ OutsideInt32(query[h].ip)) =>
              /\ pc[h] = "returned"
              /\ ret[h] = "ip"
              /\ calls[h] = <<>>
              /\ peer[h] = NoPeer
    /\ \A p \in store :
          p.IP \in {<<"1","2","7",".","0",".","0",".","1">>,
                    <<"1","9","2",".","1","6","8",".","0",".","1">>}

\* An announce with ip=3232235521 was rejected at the ip while the
\* datastore held the record of an earlier announce.
C18_Witness ==
    \E h \in Handlers :
        /\ pc[h] = "returned"
        /\ query[h].ip = <<"3","2","3","2","2","3","5","5","2","1">>
        /\ ret[h] = "ip"
        /\ ServerError(w[h])
        /\ store # {}

\* The hexadecimal text of the identifiers announced: "AB" is 4142, "CD" is
\* 4344, the bytes 0, 255 are 00ff, and no bytes give the empty text.
HexOf(b) ==
    CASE b = <<65, 66>> -> <<"4","1","4","2">>
      [] b = <<67, 68>> -> <<"4","3","4","4">>
      [] b = <<0, 255>> -> <<"0","0","f","f">>
      [] OTHER -> <<>>

\* C19: whatever info_hash, peer_id, dc and event are (absent ones included),
\* an announce whose five numeric values are those of the scenario is not
\* rejected: it is about to call Update or has called it first, with a
\* record whose DC and Event are the request's dc and event as they came and
\* whose InfoHash and PeerID are the hexadecimal texts of info_hash and
\* peer_id (the empty text for an absent one).  Every record given to Update
\* is made so.
C19_IdentityNeverRejected ==
    \A h \in Handlers :
        /\ (InFlight(h) /\ \A f \in NumericFields : query[h][f] = BaseQuery[f]) =>
              \/ pc[h] = "update" /\ calls[h] = <<>>
              \/ /\ Len(calls[h]) >= 1
                 /\ calls[h][1].op = "Update"
                 /\ calls[h][1].peer.InfoHash = HexOf(query[h].info_hash)
                 /\ calls[h][1].peer.PeerID = HexOf(query[h].peer_id)
        /\ \A i \in 1..Len(calls[h]) :
              calls[h][i].op = "Update" =>
                 /\ calls[h][i].peer.DC = query[h].dc
                 /\ calls[h][i].peer.Event = query[h].event
                 /\ Len(calls[h][i].peer.InfoHash) = 2 * Len(query[h].info_hash)
                 /\ Len(calls[h][i].peer.PeerID) = 2 * Len(query[h].peer_id)

\* Records are kept under an empty InfoHash, under an empty PeerID, with an
\* empty DC and with an event that is none of the protocol's.
C19_Witness ==
    /\ \E p \in store : p.InfoHash = <<>> /\ p.PeerID = <<"4","3","4","4">>
    /\ \E p \in store : p.PeerID = <<>> /\ p.InfoHash = <<"4","1","4","2">>
    /\ \E p \in store : p.InfoHash = <<"0","0","f","f">>
    /\ \E h \in Handlers :
          /\ Len(calls[h]) >= 1
          /\ query[h].event = "bogus"
          /\ ~calls[h][1].err
          /\ calls[h][1].peer.Event = "bogus"
          /\ calls[h][1].peer \in store

====
